---- MODULE Spec2Model ----
(***************************************************************************)
(* Table lifecycle and the staff/customer request pipeline of the          *)
(* BuffetPOS backend: the REST table handlers (rest.tableHandler), the     *)
(* bearer-token middleware (middleware.AuthMiddleware) and the route       *)
(* table of main().  The table use case, the role middleware and the       *)
(* access-code verifier are collaborators of these files.                  *)
(***************************************************************************)
EXTENDS Integers, Sequences, FiniteSets, TLC

VARIABLES tables, nextID, nextCode, req

vars == <<tables, nextID, nextCode, req>>

----------------------------------------------------------------------------
(* Bounds *)

MaxTables == 2
MaxCodes == 2

Reqs == {1, 2}
IDs == 1..MaxTables
Names == {"T1", "T2"}

----------------------------------------------------------------------------
(* HTTP status codes used by the handlers and the middleware *)

StatusOK == 200
StatusBadRequest == 400
StatusUnauthorized == 401
StatusForbidden == 403
StatusNotFound == 404
StatusInternalServerError == 500

(* Sentinel errors of domain/exceptions, compared by identity in the handlers *)
NoError == "nil"
ErrTableNotFound == "ErrTableNotFound"
ErrDuplicatedTableName == "ErrDuplicatedTableName"
ErrTableAlreadyAssigned == "ErrTableAlreadyAssigned"
ErrInternal == "store unavailable"

DomainErrors == {ErrTableNotFound, ErrDuplicatedTableName, ErrTableAlreadyAssigned}

----------------------------------------------------------------------------
(* Table records.  An access code is a sequence: <<>> is the empty code,   *)
(* <<n>> the n-th code ever minted.                                        *)

Free == "Free"
Occupied == "Occupied"
EmptyCode == << >>

Live == DOMAIN tables

DetailOf(ts, id) ==
    [id |-> id, name |-> ts[id].name, status |-> ts[id].status,
     accessCode |-> ts[id].accessCode]

TableDetail(id) == DetailOf(tables, id)

NoTables == {}

----------------------------------------------------------------------------
(* Responses: status, message text and the table details in the body *)

NoResp == [status |-> 0, msg |-> "", tables |-> NoTables]
Message(status, msg) == [status |-> status, msg |-> msg, tables |-> NoTables]
Details(status, ts) == [status |-> status, msg |-> "", tables |-> ts]

----------------------------------------------------------------------------
(* The table use case (usecases.TableUseCase), as the handlers call it.    *)
(* Each operation yields the error it returns and the store it leaves;     *)
(* dbOk = FALSE is a failure of the store, which changes nothing.          *)

Unchanged(err) ==
    [err |-> err, tables |-> tables, nextID |-> nextID, nextCode |-> nextCode]

NameTaken(name, except) ==
    \E t \in Live \ except : tables[t].name = name

NewTable(name) == [name |-> name, status |-> Free, accessCode |-> EmptyCode]

SvcAddTable(name, dbOk) ==
    IF ~dbOk THEN Unchanged(ErrInternal)
    ELSE IF NameTaken(name, {}) THEN Unchanged(ErrDuplicatedTableName)
    ELSE [err |-> NoError,
          tables |-> [t \in Live \cup {nextID} |->
                         IF t = nextID THEN NewTable(name) ELSE tables[t]],
          nextID |-> nextID + 1, nextCode |-> nextCode]

SvcFindAllTables(dbOk) ==
    IF ~dbOk THEN [err |-> ErrInternal, out |-> NoTables]
    ELSE [err |-> NoError, out |-> {TableDetail(t) : t \in Live}]

SvcFindTableByID(id, dbOk) ==
    IF ~dbOk THEN [err |-> ErrInternal, out |-> NoTables]
    ELSE IF id \notin Live THEN [err |-> ErrTableNotFound, out |-> NoTables]
    ELSE [err |-> NoError, out |-> {TableDetail(id)}]

SvcEditTable(id, name, dbOk) ==
    IF ~dbOk THEN Unchanged(ErrInternal)
    ELSE IF id \notin Live THEN Unchanged(ErrTableNotFound)
    ELSE IF NameTaken(name, {id}) THEN Unchanged(ErrDuplicatedTableName)
    ELSE [err |-> NoError,
          tables |-> [tables EXCEPT ![id].name = name],
          nextID |-> nextID, nextCode |-> nextCode]

SvcDeleteTable(id, dbOk) ==
    IF ~dbOk THEN Unchanged(ErrInternal)
    ELSE IF id \notin Live THEN Unchanged(ErrTableNotFound)
    ELSE [err |-> NoError,
          tables |-> [t \in Live \ {id} |-> tables[t]],
          nextID |-> nextID, nextCode |-> nextCode]

(* assign, first half: the lookup of the table by id *)
SvcAssignLookup(id, dbOk) ==
    IF ~dbOk THEN ErrInternal
    ELSE IF id \notin Live THEN ErrTableNotFound
    ELSE NoError

(* variant: the update that derives the code from the table instead of   *)
(* minting a new one                                                       *)
SvcAssignUpdateReusesCode(id, dbOk) ==
    IF ~dbOk THEN Unchanged(ErrInternal)
    ELSE IF id \notin Live THEN Unchanged(ErrTableNotFound)
    ELSE IF tables[id].status # Free THEN Unchanged(ErrTableAlreadyAssigned)
    ELSE [err |-> NoError,
          tables |-> [tables EXCEPT ![id].status = Occupied,
                                    ![id].accessCode = <<id>>],
          nextID |-> nextID, nextCode |-> nextCode + 1]

(* assign, second half: the update of the status, conditional on the       *)
(* status the store holds at that moment, with a newly minted code         *)
SvcAssignUpdate(id, dbOk) ==
    IF ~dbOk THEN Unchanged(ErrInternal)
    ELSE IF id \notin Live THEN Unchanged(ErrTableNotFound)
    ELSE IF tables[id].status # Free THEN Unchanged(ErrTableAlreadyAssigned)
    ELSE [err |-> NoError,
          tables |-> [tables EXCEPT ![id].status = Occupied,
                                    ![id].accessCode = <<nextCode>>],
          nextID |-> nextID, nextCode |-> nextCode + 1]

(* release: Occupied -> Free, clearing the code; a Free table is left as is *)
(* variant: the release that frees the table and forgets to clear the code *)
SvcReleaseKeepsCode(id, dbOk) ==
    IF ~dbOk THEN Unchanged(ErrInternal)
    ELSE IF id \notin Live THEN Unchanged(ErrTableNotFound)
    ELSE [err |-> NoError,
          tables |-> [tables EXCEPT ![id].status = Free],
          nextID |-> nextID, nextCode |-> nextCode]

SvcRelease(id, dbOk) ==
    IF ~dbOk THEN Unchanged(ErrInternal)
    ELSE IF id \notin Live THEN Unchanged(ErrTableNotFound)
    ELSE [err |-> NoError,
          tables |-> [tables EXCEPT ![id].status = Free,
                                    ![id].accessCode = EmptyCode],
          nextID |-> nextID, nextCode |-> nextCode]

(* The access-code verifier: the Occupied table that holds the code, if any *)
AccessCodeVerifier(code) ==
    {TableDetail(t) : t \in {u \in Live : /\ tables[u].status = Occupied
                                          /\ code # EmptyCode
                                          /\ tables[u].accessCode = code}}

(* The role middleware: the role of the token must be one of the roles     *)
(* the group was built with                                                *)
RoleMiddleware(role, required) == role \in required

----------------------------------------------------------------------------
(* Request decoding and validation *)

ParseOK == "ok"
ParseNil == "nil"         \* BodyParser fails and leaves req nil
ParsePartial == "partial" \* BodyParser fails after filling fields of req

ParseOutcomes == {ParseOK, ParseNil, ParsePartial}

(* utils.ValidateStruct on the decoded request: the required fields *)
ValidateStruct(op, parse, id, name) ==
    /\ parse # ParseNil
    /\ op \in {"Edit", "AssignTable"} => id # 0
    /\ op \in {"AddTable", "Edit"} => name # ""

(* utils.ValidateUUID on the :id path parameter *)
ValidateUUID(param) == param.uuid # 0

----------------------------------------------------------------------------
(* What each handler answers for the error the use case returned *)

(* variant: AddTable without the case for ErrDuplicatedTableName *)
AddTableResponseNoDuplicateCase(err) ==
    IF err = NoError THEN Message(StatusOK, "Table added successfully")
    ELSE Message(StatusInternalServerError, err)

AddTableResponse(err) ==
    IF err = NoError THEN Message(StatusOK, "Table added successfully")
    ELSE IF err = ErrDuplicatedTableName
         THEN Message(StatusBadRequest, "Table name already exists")
    ELSE Message(StatusInternalServerError, err)

FindAllTablesResponse(err, out) ==
    IF err # NoError THEN Message(StatusInternalServerError, err)
    ELSE Details(StatusOK, out)

FindTableByIDResponse(err, out) ==
    IF err = NoError THEN Details(StatusOK, out)
    ELSE IF err = ErrTableNotFound THEN Message(StatusNotFound, "Table not found")
    ELSE Message(StatusInternalServerError, err)

EditResponse(err) ==
    IF err = NoError THEN Message(StatusOK, "Table edited successfully")
    ELSE IF err = ErrTableNotFound THEN Message(StatusBadRequest, "Table not found")
    ELSE Message(StatusInternalServerError, err)

DeleteResponse(err) ==
    IF err = NoError THEN Message(StatusOK, "Table deleted successfully")
    ELSE IF err = ErrTableNotFound THEN Message(StatusBadRequest, "Table not found")
    ELSE Message(StatusInternalServerError, err)

(* variant: AssignTable without the case for ErrTableAlreadyAssigned *)
AssignTableResponseNoAssignedCase(err, out) ==
    IF err = NoError THEN Details(StatusOK, out)
    ELSE IF err = ErrTableNotFound THEN Message(StatusBadRequest, "Table not found")
    ELSE Message(StatusInternalServerError, err)

(* variant: AssignTable answering the conflict like a missing table *)
AssignTableResponseConflictAsNotFound(err, out) ==
    IF err = NoError THEN Details(StatusOK, out)
    ELSE IF err \in {ErrTableNotFound, ErrTableAlreadyAssigned}
         THEN Message(StatusBadRequest, "Table not found")
    ELSE Message(StatusInternalServerError, err)

AssignTableResponse(err, out) ==
    IF err = NoError THEN Details(StatusOK, out)
    ELSE IF err = ErrTableNotFound THEN Message(StatusBadRequest, "Table not found")
    ELSE IF err = ErrTableAlreadyAssigned
         THEN Message(StatusBadRequest, "Table already assigned")
    ELSE Message(StatusInternalServerError, err)

(* c.Locals("table") asserted to *TableDetail, the ok flag discarded *)
FindCustomerTableResponse(local) == Details(StatusOK, local)

ParseErrorResponse == Message(StatusBadRequest, "body parse error")
ValidationErrorResponse == Message(StatusBadRequest, "validation failed")
InvalidUUIDResponse == Message(StatusBadRequest, "Invalid UUID")

----------------------------------------------------------------------------
(* Requests.  A request records what the code has read of it so far (the   *)
(* header at the auth middleware, the body at BodyParser), its position    *)
(* pc, the middleware and handlers that ran on it, and its response.       *)

NoParam == [lit |-> "", uuid |-> 0]
Params == {NoParam, [lit |-> "assign", uuid |-> 0]}
              \cup {[lit |-> "uuid", uuid |-> i] : i \in IDs}

Codes == {<<n>> : n \in 1..MaxCodes}

BodyHandlers == {"AddTable", "Edit", "AssignTable"}
ParamHandlers == {"FindTableByID", "Delete"}

IdleReq ==
    [pc |-> "idle", op |-> "", method |-> "", group |-> "", param |-> NoParam,
     scheme |-> "", token |-> "", role |-> "", code |-> EmptyCode,
     parse |-> ParseOK, id |-> 0, name |-> "", local |-> NoTables,
     resp |-> NoResp, err |-> NoError, svc |-> FALSE, ran |-> {}]

Init ==
    /\ tables = << >>
    /\ nextID = 1
    /\ nextCode = 1
    /\ req = [r \in Reqs |-> IdleReq]

Store(s) ==
    /\ tables' = s.tables
    /\ nextID' = s.nextID
    /\ nextCode' = s.nextCode

----------------------------------------------------------------------------
(* The handlers of rest.tableHandler *)

(* c.BodyParser(&req) at the head of AddTable, Edit and AssignTable: the  *)
(* outcomes of decoding a body.  A failed decode leaves req nil, or        *)
(* leaves fields of req filled in behind the error.                        *)
Bodies(op) ==
    {b \in [parse : ParseOutcomes, id : {0} \cup IDs, name : {""} \cup Names] :
        /\ b.parse = ParseNil => b.id = 0 /\ b.name = ""
        /\ op = "AddTable" => b.id = 0
        /\ op = "AssignTable" => b.name = ""}

(* the request once the body is decoded: on an error the handler writes    *)
(* the 400 response and goes on to ValidateStruct                          *)
Parsed(r, b) ==
    [req[r] EXCEPT !.parse = b.parse, !.id = b.id, !.name = b.name,
                   !.ran = @ \cup {req[r].op},
                   !.resp = IF b.parse = ParseOK THEN @ ELSE ParseErrorResponse]

(* the handler returns: the response is sent and the request is over *)
Return(q, resp, err, svc) ==
    [q EXCEPT !.pc = "done", !.resp = resp, !.err = err, !.svc = svc]

AddTable(r) ==
    /\ req[r].pc = "handler"
    /\ req[r].op = "AddTable"
    /\ \E b \in Bodies("AddTable") :
         IF ~ValidateStruct("AddTable", b.parse, b.id, b.name)
         THEN /\ req' = [req EXCEPT ![r] =
                           Return(Parsed(r, b), ValidationErrorResponse, NoError, FALSE)]
              /\ UNCHANGED <<tables, nextID, nextCode>>
         ELSE \E dbOk \in BOOLEAN :
                LET s == SvcAddTable(b.name, dbOk) IN
                /\ s.nextID <= MaxTables + 1
                /\ Store(s)
                /\ req' = [req EXCEPT ![r] =
                             Return(Parsed(r, b), AddTableResponse(s.err), s.err, TRUE)]

Edit(r) ==
    /\ req[r].pc = "handler"
    /\ req[r].op = "Edit"
    /\ \E b \in Bodies("Edit") :
         IF ~ValidateStruct("Edit", b.parse, b.id, b.name)
         THEN /\ req' = [req EXCEPT ![r] =
                           Return(Parsed(r, b), ValidationErrorResponse, NoError, FALSE)]
              /\ UNCHANGED <<tables, nextID, nextCode>>
         ELSE \E dbOk \in BOOLEAN :
                LET s == SvcEditTable(b.id, b.name, dbOk) IN
                /\ Store(s)
                /\ req' = [req EXCEPT ![r] =
                             Return(Parsed(r, b), EditResponse(s.err), s.err, TRUE)]

(* AssignTable up to the use case's lookup of the table *)
AssignTable(r) ==
    /\ req[r].pc = "handler"
    /\ req[r].op = "AssignTable"
    /\ UNCHANGED <<tables, nextID, nextCode>>
    /\ \E b \in Bodies("AssignTable") :
         IF ~ValidateStruct("AssignTable", b.parse, b.id, b.name)
         THEN req' = [req EXCEPT ![r] =
                        Return(Parsed(r, b), ValidationErrorResponse, NoError, FALSE)]
         ELSE \E dbOk \in BOOLEAN :
                LET err == SvcAssignLookup(b.id, dbOk) IN
                req' = [req EXCEPT ![r] =
                          IF err # NoError
                          THEN Return(Parsed(r, b), AssignTableResponse(err, NoTables),
                                      err, TRUE)
                          ELSE [Parsed(r, b) EXCEPT !.pc = "update", !.svc = TRUE]]

(* AssignTable from the use case's update of the table to the response *)
AssignTableUpdate(r) ==
    /\ req[r].pc = "update"
    /\ \E dbOk \in BOOLEAN :
         LET s == SvcAssignUpdate(req[r].id, dbOk)
             out == IF s.err = NoError THEN {DetailOf(s.tables, req[r].id)}
                    ELSE NoTables
         IN
         /\ s.nextCode <= MaxCodes + 1
         /\ Store(s)
         /\ req' = [req EXCEPT ![r] =
                      Return(req[r], AssignTableResponse(s.err, out), s.err, TRUE)]

FindAllTables(r) ==
    /\ req[r].pc = "handler"
    /\ req[r].op = "FindAllTables"
    /\ UNCHANGED <<tables, nextID, nextCode>>
    /\ \E dbOk \in BOOLEAN :
         LET s == SvcFindAllTables(dbOk) IN
         req' = [req EXCEPT ![r].pc = "done", ![r].ran = @ \cup {req[r].op},
                            ![r].resp = FindAllTablesResponse(s.err, s.out),
                            ![r].err = s.err, ![r].svc = TRUE]

FindTableByID(r) ==
    /\ req[r].pc = "handler"
    /\ req[r].op = "FindTableByID"
    /\ UNCHANGED <<tables, nextID, nextCode>>
    /\ IF ~ValidateUUID(req[r].param)
       THEN req' = [req EXCEPT ![r].pc = "done", ![r].ran = @ \cup {req[r].op},
                               ![r].resp = InvalidUUIDResponse]
       ELSE \E dbOk \in BOOLEAN :
              LET s == SvcFindTableByID(req[r].param.uuid, dbOk) IN
              req' = [req EXCEPT ![r].pc = "done", ![r].ran = @ \cup {req[r].op},
                                 ![r].resp = FindTableByIDResponse(s.err, s.out),
                                 ![r].err = s.err, ![r].svc = TRUE]

Delete(r) ==
    /\ req[r].pc = "handler"
    /\ req[r].op = "Delete"
    /\ IF ~ValidateUUID(req[r].param)
       THEN /\ req' = [req EXCEPT ![r].pc = "done", ![r].ran = @ \cup {req[r].op},
                                  ![r].resp = InvalidUUIDResponse]
            /\ UNCHANGED <<tables, nextID, nextCode>>
       ELSE \E dbOk \in BOOLEAN :
              LET s == SvcDeleteTable(req[r].param.uuid, dbOk) IN
              /\ Store(s)
              /\ req' = [req EXCEPT ![r].pc = "done", ![r].ran = @ \cup {req[r].op},
                                    ![r].resp = DeleteResponse(s.err),
                                    ![r].err = s.err, ![r].svc = TRUE]

FindCustomerTable(r) ==
    /\ req[r].pc = "handler"
    /\ req[r].op = "FindCustomerTable"
    /\ UNCHANGED <<tables, nextID, nextCode>>
    /\ req' = [req EXCEPT ![r].pc = "done", ![r].ran = @ \cup {req[r].op},
                          ![r].resp = FindCustomerTableResponse(req[r].local)]

(* the response has been delivered: the worker takes the next request *)
Finish(r) ==
    /\ req[r].pc = "done"
    /\ req' = [req EXCEPT ![r] = IdleReq]
    /\ UNCHANGED <<tables, nextID, nextCode>>

----------------------------------------------------------------------------
(* The operations of the TableHandler interface, called on a request that  *)
(* has reached the handler, and the use-case operations behind them        *)

TableHandler ==
    {"AddTable", "FindAllTables", "FindTableByID", "FindCustomerTable",
     "Edit", "Delete", "AssignTable"}

Call(r) ==
    /\ req[r].pc = "idle"
    /\ \E op \in TableHandler \ {"FindCustomerTable"}, param \in Params :
        /\ op \in ParamHandlers <=> param # NoParam
        /\ req' = [req EXCEPT ![r].pc = "handler", ![r].op = op,
                              ![r].param = param]
    /\ UNCHANGED <<tables, nextID, nextCode>>

(* A customer request: the access-code verifier resolves the AccessCode    *)
(* header and hands the table to FindCustomerTable through Locals("table") *)
CustomerLookup(r) ==
    /\ req[r].pc = "idle"
    /\ \E code \in {EmptyCode} \cup Codes :
         LET found == AccessCodeVerifier(code) IN
         req' = [req EXCEPT ![r] =
                   IF found = NoTables
                   THEN [IdleReq EXCEPT !.pc = "done", !.code = code,
                            !.ran = {"AccessCodeVerifier"},
                            !.resp = Message(StatusUnauthorized, "Unauthorized")]
                   ELSE [IdleReq EXCEPT !.pc = "handler", !.code = code,
                            !.op = "FindCustomerTable",
                            !.ran = {"AccessCodeVerifier"},
                            !.local = found]]
    /\ UNCHANGED <<tables, nextID, nextCode>>

(* release, called on the use case.  It answers no request, so a release  *)
(* that changes nothing (a missing or Free table, a failed store) is a     *)
(* stuttering step and is left to [Next]_vars.                             *)
Release(id) ==
    /\ \E dbOk \in BOOLEAN :
         /\ SvcRelease(id, dbOk).tables # tables
         /\ Store(SvcRelease(id, dbOk))
    /\ UNCHANGED req

----------------------------------------------------------------------------
(* The request pipeline of main(): the /manage group runs AuthMiddleware,  *)
(* then RoleMiddleware(Employee, Manager), then the matching route         *)

Employee == "employee"
Manager == "manager"
RequiredRoles == {Employee, Manager}
Roles == {Employee, Manager, "guest", ""}

NoCred == [kind |-> "none", role |-> ""]
Creds == {NoCred}
           \cup {[kind |-> "valid", role |-> ro] : ro \in Roles}
           \cup {[kind |-> k, role |-> Manager] : k \in {"malformed", "badsig", "expired"}}

(* an Authorization header: what precedes the credential, and the credential *)
Headers == [scheme : {"", "Basic ", "bearer ", "Bearer "}, cred : Creds]

HasBearerPrefix(h) == h.scheme = "Bearer "

(* jwt.Parse with the configured secret: err == nil and token.Valid *)
JwtValid(cred) == cred.kind = "valid"

(* variant: AuthMiddleware without the check of jwt.Parse's result *)
AuthPassesPrefixOnly(h) == HasBearerPrefix(h)

(* whether AuthMiddleware calls c.Next() *)
AuthPasses(h) == HasBearerPrefix(h) /\ JwtValid(h.cred)

Methods == {"GET", "POST", "PUT", "DELETE"}

(* the handler main() registers for a method and a path under /.../tables *)
Route(method, group, param) ==
    IF group # "manage" THEN ""
    ELSE IF param = NoParam
         THEN (IF method = "GET" THEN "FindAllTables"
               ELSE IF method = "POST" THEN "AddTable"
               ELSE IF method = "PUT" THEN "Edit"
               ELSE "")
    ELSE (IF method = "GET" THEN "FindTableByID"
          ELSE IF method = "DELETE" THEN "Delete"
          ELSE "")

(* the middleware the group of the path was built with *)
GroupMiddleware(group) ==
    IF group = "manage" THEN <<"AuthMiddleware", "RoleMiddleware">> ELSE << >>

Arrive(r) ==
    /\ req[r].pc = "idle"
    /\ \E group \in {"manage", "customer"}, code \in {EmptyCode} \cup Codes :
        /\ group = "manage" => code = EmptyCode
        /\ req' = [req EXCEPT ![r].group = group, ![r].code = code,
                      ![r].pc = IF GroupMiddleware(group) = << >> THEN "route"
                                ELSE "auth"]
    /\ UNCHANGED <<tables, nextID, nextCode>>

AuthMiddleware(r) ==
    /\ req[r].pc = "auth"
    /\ \E h \in Headers :
         req' = [req EXCEPT ![r].scheme = h.scheme, ![r].token = h.cred.kind,
                    ![r].ran = @ \cup {"AuthMiddleware"},
                    ![r].role = IF AuthPasses(h) THEN h.cred.role ELSE @,
                    ![r].pc = IF AuthPasses(h) THEN "role" ELSE "done",
                    ![r].resp = IF AuthPasses(h) THEN @
                                ELSE Message(StatusUnauthorized, "Unauthorized")]
    /\ UNCHANGED <<tables, nextID, nextCode>>

RoleCheck(r) ==
    /\ req[r].pc = "role"
    /\ LET ok == RoleMiddleware(req[r].role, RequiredRoles) IN
       req' = [req EXCEPT ![r].ran = @ \cup {"RoleMiddleware"},
                  ![r].pc = IF ok THEN "route" ELSE "done",
                  ![r].resp = IF ok THEN @
                              ELSE Message(StatusForbidden, "Forbidden")]
    /\ UNCHANGED <<tables, nextID, nextCode>>

Router(r) ==
    /\ req[r].pc = "route"
    /\ \E method \in Methods, param \in Params :
         LET h == Route(method, req[r].group, param) IN
         req' = [req EXCEPT ![r].method = method, ![r].param = param,
                    ![r].op = h,
                    ![r].pc = IF h = "" THEN "done" ELSE "handler",
                    ![r].resp = IF h = "" THEN Message(StatusNotFound, "Cannot " \o method)
                                ELSE @]
    /\ UNCHANGED <<tables, nextID, nextCode>>

----------------------------------------------------------------------------
(* Spec: the handlers and the use case, called in any order and            *)
(* interleaved at the calls into the store.                                *)
(* SpecHTTP: requests served by the application main() builds.             *)

(* A finished request keeps its response until Finish delivers it.        *)
(* Finish reads and writes nothing but that request, so it commutes with   *)
(* every other step; the specifications take it first, which leaves the    *)
(* store and every request's outcome as they are in any other order.       *)
Quiet == \A r \in Reqs : req[r].pc # "done"

Next ==
    \/ \E r \in Reqs : Finish(r)
    \/ Quiet /\ \E r \in Reqs : Call(r)
    \/ Quiet /\ \E r \in Reqs : CustomerLookup(r)
    \/ Quiet /\ \E r \in Reqs : AddTable(r)
    \/ Quiet /\ \E r \in Reqs : Edit(r)
    \/ Quiet /\ \E r \in Reqs : AssignTable(r)
    \/ Quiet /\ \E r \in Reqs : AssignTableUpdate(r)
    \/ Quiet /\ \E r \in Reqs : FindAllTables(r)
    \/ Quiet /\ \E r \in Reqs : FindTableByID(r)
    \/ Quiet /\ \E r \in Reqs : Delete(r)
    \/ Quiet /\ \E r \in Reqs : FindCustomerTable(r)
    \/ Quiet /\ \E id \in IDs : Release(id)

Spec == Init /\ [][Next]_vars

NextHTTP ==
    \/ \E r \in Reqs : Finish(r)
    \/ Quiet /\ \E r \in Reqs : Arrive(r)
    \/ Quiet /\ \E r \in Reqs : AuthMiddleware(r)
    \/ Quiet /\ \E r \in Reqs : RoleCheck(r)
    \/ Quiet /\ \E r \in Reqs : Router(r)
    \/ Quiet /\ \E r \in Reqs : AddTable(r)
    \/ Quiet /\ \E r \in Reqs : Edit(r)
    \/ Quiet /\ \E r \in Reqs : FindAllTables(r)
    \/ Quiet /\ \E r \in Reqs : FindTableByID(r)
    \/ Quiet /\ \E r \in Reqs : Delete(r)

SpecHTTP == Init /\ [][NextHTTP]_vars

(* SpecAssign: two AssignTable calls arrive together at a store that     *)
(* holds a Free table (id 1) and an Occupied one (id 2) *)

InitAssign ==
    /\ tables = [t \in {1, 2} |->
                   IF t = 1 THEN NewTable("T1")
                   ELSE [name |-> "T2", status |-> Occupied, accessCode |-> <<1>>]]
    /\ nextID = 3
    /\ nextCode = 2
    /\ req = [r \in Reqs |-> [IdleReq EXCEPT !.pc = "handler", !.op = "AssignTable"]]

NextAssign ==
    \/ \E r \in Reqs : AssignTable(r)
    \/ \E r \in Reqs : AssignTableUpdate(r)

SpecAssign == InitAssign /\ [][NextAssign]_vars

----------------------------------------------------------------------------
(* Properties *)

Done(r) == req[r].pc = "done"

CodeIffOccupied(ts) ==
    \A t \in DOMAIN ts : (ts[t].accessCode # EmptyCode) <=> (ts[t].status = Occupied)

(* C1: in every reachable state every live table has a non-empty access    *)
(* code exactly when it is Occupied, and every step that creates a table   *)
(* creates it Free with the empty code.                                    *)
C1_CodeIffOccupied ==
    /\ [](CodeIffOccupied(tables))
    /\ [][\A t \in (DOMAIN tables') \ Live :
             tables'[t].status = Free /\ tables'[t].accessCode = EmptyCode]_vars

C1_Witness ==
    /\ \E t \in Live : tables[t].status = Occupied /\ tables[t].accessCode # EmptyCode
    /\ \E t \in Live : tables[t].status = Free /\ tables[t].accessCode = EmptyCode
    /\ \E r \in Reqs : Done(r) /\ req[r].op = "Edit" /\ req[r].svc /\ req[r].err = NoError

(* C2: when both of two AssignTable calls on the Free table 1 have gone    *)
(* through the lookup and the update and the store answered both, exactly  *)
(* one got 200 with the newly minted code, the other got 400 "Table        *)
(* already assigned", and the table holds the winner's code.               *)
Contended(r) ==
    /\ Done(r) /\ req[r].op = "AssignTable" /\ req[r].id = 1
    /\ req[r].err \in {NoError, ErrTableAlreadyAssigned}
    /\ req[r].svc

Won(r) ==
    /\ req[r].resp.status = StatusOK
    /\ req[r].resp.tables = {TableDetail(1)}
    /\ tables[1].status = Occupied
    /\ tables[1].accessCode = <<2>>

Lost(r) == req[r].resp = Message(StatusBadRequest, "Table already assigned")

C4_OccupiedAssignFails ==
    [][\A r \in Reqs :
          ( /\ req[r].pc = "update" /\ req'[r].pc = "done"
            /\ req[r].id \in Live
            /\ tables[req[r].id].status = Occupied
            /\ req'[r].err # ErrInternal )
          => /\ req'[r].err = ErrTableAlreadyAssigned
             /\ req'[r].resp = Message(StatusBadRequest, "Table already assigned")
             /\ tables' = tables
             /\ nextCode' = nextCode]_vars

(* a second attempt on the Occupied table 1 was refused, its one code kept, *)
(* while another attempt on it is between its lookup and its update        *)
C4_Witness ==
    \E r1, r2 \in Reqs :
        /\ r1 # r2
        /\ Done(r1) /\ req[r1].op = "AssignTable" /\ req[r1].id = 1
        /\ req[r1].err = ErrTableAlreadyAssigned
        /\ req[r2].pc = "update" /\ req[r2].id = 1
        /\ 1 \in Live /\ tables[1].status = Occupied /\ tables[1].accessCode = <<1>>
        /\ nextCode = 2

(* C6: every Occupied table can be released; a step of the release       *)
(* operation that changes the store turns one Occupied table Free with the *)
(* empty code and touches nothing else; and a minted code that no longer   *)
(* resolves to a table never resolves again.                               *)
Minted == {c \in Codes : c[1] < nextCode}

UniqueNames ==
    \A t, u \in Live : t # u => tables[t].name # tables[u].name

ServiceStep(r, op) ==
    /\ req[r].pc = "handler" /\ req[r].op = op
    /\ req'[r].pc = "done" /\ req'[r].svc
    /\ req'[r].err # ErrInternal

C8_UniqueNames ==
    /\ []UniqueNames
    /\ [][\A r \in Reqs :
            /\ (ServiceStep(r, "AddTable") /\ NameTaken(req'[r].name, {}))
                 => /\ req'[r].err = ErrDuplicatedTableName
                    /\ req'[r].resp = Message(StatusBadRequest, "Table name already exists")
                    /\ tables' = tables
            /\ (ServiceStep(r, "AddTable") /\ ~NameTaken(req'[r].name, {}))
                 => /\ req'[r].err = NoError
                    /\ req'[r].resp.status = StatusOK
                    /\ \E t \in (DOMAIN tables') \ Live :
                          tables'[t].name = req'[r].name
            /\ (ServiceStep(r, "Edit") /\ req'[r].id \in Live
                  /\ NameTaken(req'[r].name, {req'[r].id}))
                 => /\ req'[r].err = ErrDuplicatedTableName
                    /\ tables' = tables]_vars

(* with two live tables, an Edit of one to the name of the other was       *)
(* refused                                                                 *)
C8_Witness ==
    /\ Cardinality(Live) = 2
    /\ \E r \in Reqs :
         /\ Done(r) /\ req[r].op = "Edit" /\ req[r].err = ErrDuplicatedTableName
         /\ req[r].id \in Live /\ tables[req[r].id].name # req[r].name

(* C3: on a /manage request the role middleware and the handlers run     *)
(* only after AuthMiddleware has run, and a request whose Authorization    *)
(* header lacks the "Bearer " prefix or carries a token jwt.Parse rejects  *)
(* is over once AuthMiddleware has run: answered 401 "Unauthorized", with  *)
(* neither the role middleware nor a handler nor the use case run.         *)
C3_AuthBeforeRole ==
    \A r \in Reqs :
        req[r].group = "manage" =>
            /\ (req[r].ran \ {"AuthMiddleware"} # {} \/ req[r].pc \in {"role", "route", "handler"})
                   => "AuthMiddleware" \in req[r].ran
            /\ ("AuthMiddleware" \in req[r].ran
                  /\ (req[r].scheme # "Bearer " \/ req[r].token # "valid"))
                   => /\ Done(r)
                      /\ req[r].resp = Message(StatusUnauthorized, "Unauthorized")
                      /\ req[r].ran = {"AuthMiddleware"}
                      /\ req[r].op = ""
                      /\ ~req[r].svc

C3_Witness ==
    \E r \in Reqs :
        /\ Done(r) /\ req[r].group = "manage"
        /\ req[r].scheme = "Bearer " /\ req[r].token = "expired"
        /\ req[r].resp.status = StatusUnauthorized
        /\ req[r].ran = {"AuthMiddleware"}

(* C5, as claimed: a customer request that is answered got 200 only with   *)
(* the details of the table its code resolved to, and got 401 when its     *)
(* code resolved to no table.                                              *)
C5_CustomerLookupGuarded ==
    \A r \in Reqs :
        (Done(r) /\ req[r].group = "customer") =>
            /\ req[r].resp.status = StatusOK
                 => req[r].local # NoTables /\ req[r].resp.tables = req[r].local
            /\ req[r].local = NoTables => req[r].resp.status = StatusUnauthorized

(* C7, as claimed: a valid Employee token reaches the assign, list and     *)
(* create handlers, and a valid token with another role is answered 403    *)
(* and reaches no handler.                                                 *)
AssignPath(r) == req[r].method = "POST" /\ req[r].param = [lit |-> "assign", uuid |-> 0]
ListPath(r) == req[r].method = "GET" /\ req[r].param = NoParam
CreatePath(r) == req[r].method = "POST" /\ req[r].param = NoParam

C7_EmployeeReachesHandlers ==
    \A r \in Reqs :
        (Done(r) /\ req[r].group = "manage"
           /\ req[r].scheme = "Bearer " /\ req[r].token = "valid") =>
            /\ req[r].role = Employee =>
                 /\ AssignPath(r) => "AssignTable" \in req[r].ran
                 /\ ListPath(r) => "FindAllTables" \in req[r].ran
                 /\ CreatePath(r) => "AddTable" \in req[r].ran
            /\ req[r].role \notin RequiredRoles =>
                 /\ req[r].resp.status = StatusForbidden
                 /\ req[r].ran \cap TableHandler = {}

(* C9, as claimed: a handler that got a domain error from the use case     *)
(* answers with a 4xx status and the message of that error, and answers    *)
(* 5xx only for an error that is not a domain error.                       *)
ClientMessage(err) ==
    IF err = ErrTableNotFound THEN "Table not found"
    ELSE IF err = ErrDuplicatedTableName THEN "Table name already exists"
    ELSE "Table already assigned"

C9_DomainErrorsAre4xx ==
    \A r \in Reqs :
        (Done(r) /\ req[r].svc) =>
            /\ req[r].err \in DomainErrors =>
                 /\ req[r].resp.status \in 400..499
                 /\ req[r].resp.msg = ClientMessage(req[r].err)
            /\ req[r].resp.status \in 500..599 =>
                 req[r].err \notin DomainErrors \cup {NoError}

(* C10, as claimed: once the body of an AddTable, Edit or AssignTable      *)
(* request failed to parse, the use case is not called for it and its      *)
(* response stays a 400.                                                   *)
C10_ParseFailureStops ==
    \A r \in Reqs :
        (req[r].op \in BodyHandlers /\ req[r].pc \in {"update", "done"}
           /\ req[r].parse # ParseOK) =>
            /\ ~req[r].svc
            /\ req[r].resp.status = StatusBadRequest

====
